---- MODULE Spec2Model ----
(***************************************************************************)
(* Model of python_order_service.py: PythonBingXOrderService.place_order,  *)
(* _get_position_mode, cancel_order and the command line dispatcher main.  *)
(*                                                                         *)
(* Python values are records tagged by their type in the field py; a dict  *)
(* is the function d from the keys it holds to their values, so a key the  *)
(* dict lacks is a key outside DOMAIN d.                                   *)
(***************************************************************************)
EXTENDS Integers, Sequences, FiniteSets, TLC

VARIABLES
    pc,        \* position of the caller: "idle", "called", "returned", "start", "exit"
    call,      \* the invocation in progress or last completed
    trace,     \* what that invocation did, in order: mode resolution, client calls
    result,    \* what that invocation returned
    prev,      \* call and result of the invocation before it
    ncalls,    \* invocations made on the service object
    argv,      \* sys.argv of the process
    stdout,    \* lines written by the process, in order
    uncaught,  \* the exception that left main, if one did
    exitcode   \* exit status of the process

vars == <<pc, call, trace, result, prev, ncalls, argv, stdout, uncaught, exitcode>>

---------------------------------------------------------------------------
(* Python values *)

None == [py |-> "NoneType"]
PyInt(n) == [py |-> "int", n |-> n]
PyFloat(units, hundredths) == [py |-> "float", units |-> units, hundredths |-> hundredths]
PyStr(s) == [py |-> "str", s |-> s]
PyBool(b) == [py |-> "bool", b |-> b]
PyDict(d) == [py |-> "dict", d |-> d]
PyList(n) == [py |-> "list", len |-> n]

EmptyDict == [k \in {} |-> None]

\* bool(x): the truth value the `and` / `if` of the handlers test
truthy(x) ==
    CASE x.py = "NoneType" -> FALSE
      [] x.py = "int" -> x.n # 0
      [] x.py = "float" -> ~(x.units = 0 /\ x.hundredths = 0)
      [] x.py = "str" -> x.s # ""
      [] x.py = "bool" -> x.b
      [] x.py = "dict" -> DOMAIN x.d # {}
      [] x.py = "list" -> x.len # 0

\* repr of a float with at most two decimals: 0.01, 0.5, 1.0
float_repr(units, hundredths) ==
    ToString(units) \o "." \o
        (IF hundredths % 10 = 0
            THEN ToString(hundredths \div 10)
            ELSE ToString(hundredths \div 10) \o ToString(hundredths % 10))

\* str(x), as a Python str
str(x) ==
    CASE x.py = "NoneType" -> PyStr("None")
      [] x.py = "int" -> PyStr(ToString(x.n))
      [] x.py = "float" -> PyStr(float_repr(x.units, x.hundredths))
      [] x.py = "str" -> x
      [] x.py = "bool" -> PyStr(IF x.b THEN "True" ELSE "False")
      [] x.py = "dict" -> PyStr(IF DOMAIN x.d = {} THEN "{}" ELSE "{...}")
      [] x.py = "list" -> PyStr(IF x.len = 0 THEN "[]" ELSE "[...]")

\* s.lower(), on the strings str() gives for the values of reduceOnly
lower(x) ==
    CASE x.s = "True" -> PyStr("true")
      [] x.s = "False" -> PyStr("false")
      [] x.s = "None" -> PyStr("none")
      [] OTHER -> x

\* key in d
contains(x, key) == key \in DOMAIN x.d

\* d.get(key, default)
get(x, key, default) == IF key \in DOMAIN x.d THEN x.d[key] ELSE default

\* str(e) of the KeyError that d[key] raises
KeyError(key) == PyStr("'" \o key \o "'")

\* str(e) of the TypeError that x[key] raises when x is no dict
TypeError(x) ==
    CASE x.py = "NoneType" -> PyStr("'NoneType' object is not subscriptable")
      [] x.py = "int" -> PyStr("'int' object is not subscriptable")
      [] x.py = "float" -> PyStr("'float' object is not subscriptable")
      [] x.py = "bool" -> PyStr("'bool' object is not subscriptable")
      [] x.py = "list" -> PyStr("list indices must be integers or slices, not str")
      [] x.py = "str" -> PyStr("string indices must be integers, not 'str'")

NoException == [raised |-> FALSE]
Raised(e) == [raised |-> TRUE, e |-> e]

\* what the exchange client does on a call: returns a value or raises
Returns(value) == [raises |-> FALSE, value |-> value]
Raises(e) == [raises |-> TRUE, e |-> e]

\* one step of a handler: what was called, with what, and what came back
Event(ev, arg, outcome) == [ev |-> ev, arg |-> arg, outcome |-> outcome]

NotReturned == [py |-> "not returned"]
NoCall == [op |-> "none"]

\* the exit status of a process still running
NotExited == "running"

---------------------------------------------------------------------------
(* PythonBingXOrderService.place_order *)

RequiredKeys == <<"symbol", "side", "type", "quantity">>

\* the first of order_data['symbol'], ['side'], ['type'], ['quantity'] to raise
required_lookup(order_data) ==
    IF order_data.py # "dict" THEN Raised(TypeError(order_data))
    ELSE LET missing == {i \in DOMAIN RequiredKeys :
                            ~contains(order_data, RequiredKeys[i])}
             first == CHOOSE i \in missing : \A j \in missing : i <= j
         IN  IF missing = {} THEN NoException
             ELSE Raised(KeyError(RequiredKeys[first]))

required_params(order_data) ==
    [symbol |-> get(order_data, "symbol", None),
     side |-> get(order_data, "side", None),
     type |-> get(order_data, "type", None),
     quantity |-> str(get(order_data, "quantity", None))]

\* supplied, testing only that the key is there
supplied_any_value(order_data, key) == contains(order_data, key)

\* 'key' in order_data and order_data['key']
supplied(order_data, key) ==
    contains(order_data, key) /\ truthy(order_data.d[key])

optional_params(order_data) ==
    (IF supplied(order_data, "price")
        THEN "price" :> str(order_data.d["price"]) ELSE EmptyDict)
    @@ (IF supplied(order_data, "stopPrice")
        THEN "stopPrice" :> str(order_data.d["stopPrice"]) ELSE EmptyDict)
    @@ (IF supplied(order_data, "positionSide")
        THEN "positionSide" :> order_data.d["positionSide"] ELSE EmptyDict)
    @@ (IF supplied(order_data, "workingType")
        THEN "workingType" :> order_data.d["workingType"] ELSE EmptyDict)
    @@ (IF supplied(order_data, "clientOrderId")
        THEN "newClientOrderId" :> order_data.d["clientOrderId"] ELSE EmptyDict)

\* reduce_only_given, without the test against None
reduce_only_present(order_data) == contains(order_data, "reduceOnly")

\* 'reduceOnly' in order_data and order_data['reduceOnly'] is not None
reduce_only_given(order_data) ==
    contains(order_data, "reduceOnly") /\ order_data.d["reduceOnly"] # None

get_position_mode(sub_account_id) == PyStr("one-way")

reduce_only_params(order_data, position_mode) ==
    IF position_mode # PyStr("hedge")
        THEN "reduceOnly" :> lower(str(order_data.d["reduceOnly"]))
        ELSE EmptyDict

\* order_calls, calling the client again after an exception
order_calls_retrying(params, behaviour) ==
    IF behaviour.raises
        THEN <<Event("order", PyDict(params), behaviour),
               Event("order", PyDict(params), behaviour)>>
        ELSE <<Event("order", PyDict(params), behaviour)>>

order_calls(params, behaviour) == <<Event("order", PyDict(params), behaviour)>>

\* order_placed, without the default of status
order_placed_status_as_is(response) ==
    PyDict([success |-> PyBool(TRUE),
          orderId |-> response.d["orderId"],
          clientOrderId |-> get(response, "clientOrderId", None),
          status |-> get(response, "status", None),
          symbol |-> get(response, "symbol", None),
          side |-> get(response, "side", None),
          positionSide |-> get(response, "positionSide", None)])

order_placed(response) ==
    PyDict([success |-> PyBool(TRUE),
          orderId |-> response.d["orderId"],
          clientOrderId |-> get(response, "clientOrderId", None),
          status |-> get(response, "status", PyStr("NEW")),
          symbol |-> get(response, "symbol", None),
          side |-> get(response, "side", None),
          positionSide |-> get(response, "positionSide", None)])

\* order_not_placed, giving details only for a response that is truthy
order_not_placed_details_if_any(response) ==
    IF truthy(response)
        THEN PyDict([success |-> PyBool(FALSE),
                     error |-> PyStr("Order placement failed"),
                     details |-> response])
        ELSE PyDict([success |-> PyBool(FALSE),
                     error |-> PyStr("Order placement failed")])

order_not_placed(response) ==
    PyDict([success |-> PyBool(FALSE),
          error |-> PyStr("Order placement failed"),
          details |-> response])

\* result and 'orderId' in result
has_order_id(response) == truthy(response) /\ contains(response, "orderId")

\* an exception that leaves the handler
Propagated(e) == [py |-> "raised", e |-> e]

\* place_order_except, with the exception let through
place_order_reraise(e) == Propagated(e)

place_order_except(e) ==
    PyDict([success |-> PyBool(FALSE), error |-> e])

\* the whole handler: what it returns and what it did on the way
place_order(order_data, sub_account_id, behaviour) ==
    LET lookup == required_lookup(order_data) IN
    IF lookup.raised
        THEN [result |-> place_order_except(lookup.e), trace |-> <<>>]
    ELSE
    LET resolve == reduce_only_given(order_data)
        position_mode == get_position_mode(sub_account_id)
        params == required_params(order_data) @@ optional_params(order_data)
                    @@ (IF resolve
                           THEN reduce_only_params(order_data, position_mode)
                           ELSE EmptyDict)
        did == (IF resolve
                   THEN <<Event("_get_position_mode", sub_account_id,
                                 Returns(position_mode))>>
                   ELSE <<>>) \o order_calls(params, behaviour)
    IN  IF behaviour.raises
            THEN [result |-> place_order_except(behaviour.e), trace |-> did]
        ELSE IF has_order_id(behaviour.value)
            THEN [result |-> order_placed(behaviour.value), trace |-> did]
        ELSE [result |-> order_not_placed(behaviour.value), trace |-> did]

---------------------------------------------------------------------------
(* PythonBingXOrderService.cancel_order *)

\* cancel_calls, with the two arguments in each other's place
cancel_calls_swapped(order_id, symbol, behaviour) ==
    <<Event("cancel_order",
            PyDict([symbol |-> order_id, orderId |-> symbol]), behaviour)>>

cancel_calls(order_id, symbol, behaviour) ==
    <<Event("cancel_order",
            PyDict([symbol |-> symbol, orderId |-> order_id]), behaviour)>>

order_cancelled(response) ==
    PyDict([success |-> PyBool(TRUE),
            orderId |-> response.d["orderId"],
            status |-> get(response, "status", None)])

\* cancel_failed, giving details only for a response that is truthy
cancel_failed_details_if_any(response) ==
    IF truthy(response)
        THEN PyDict([success |-> PyBool(FALSE),
                     error |-> PyStr("Cancel failed"),
                     details |-> response])
        ELSE PyDict([success |-> PyBool(FALSE),
                     error |-> PyStr("Cancel failed")])

cancel_failed(response) ==
    PyDict([success |-> PyBool(FALSE),
            error |-> PyStr("Cancel failed"),
            details |-> response])

\* cancel_order_except, with the exception let through
cancel_order_reraise(e) == Propagated(e)

cancel_order_except(e) ==
    PyDict([success |-> PyBool(FALSE), error |-> e])

\* the whole handler: what it returns and what it did on the way
cancel_order(order_id, symbol, sub_account_id, behaviour) ==
    LET did == cancel_calls(order_id, symbol, behaviour)
    IN  IF behaviour.raises
            THEN [result |-> cancel_order_except(behaviour.e), trace |-> did]
        ELSE IF has_order_id(behaviour.value)
            THEN [result |-> order_cancelled(behaviour.value), trace |-> did]
        ELSE [result |-> cancel_failed(behaviour.value), trace |-> did]

---------------------------------------------------------------------------
(* Inputs *)

RequestKeys ==
    {"symbol", "side", "type", "quantity", "price", "stopPrice", "positionSide",
     "workingType", "clientOrderId", "reduceOnly", "leverage"}

RequestValues(key) ==
    CASE key = "symbol" -> {PyStr("BTC-USDT")}
      [] key = "side" -> {PyStr("BUY")}
      [] key = "type" -> {PyStr("LIMIT")}
      [] key = "quantity" -> {PyFloat(0, 1), PyInt(2)}
      [] key = "price" -> {PyInt(0), PyStr(""), PyInt(5)}
      [] key = "stopPrice" -> {PyFloat(0, 0), PyFloat(7, 50)}
      [] key = "positionSide" -> {PyStr("LONG")}
      [] key = "workingType" -> {PyStr("MARK_PRICE")}
      [] key = "clientOrderId" -> {None, PyStr("cid-1")}
      [] key = "reduceOnly" -> {None, PyBool(TRUE), PyBool(FALSE)}
      [] key = "leverage" -> {PyInt(3)}

\* the dicts holding, for each key, one of the values offered for it or nothing
RECURSIVE DictsOver(_)
DictsOver(keys) ==
    IF keys = {} THEN {EmptyDict}
    ELSE LET key == CHOOSE k \in keys : TRUE
             rest == DictsOver(keys \ {key})
         IN  rest \cup {d @@ (key :> v) : d \in rest, v \in RequestValues(key)}

OrderRequests == {PyDict(d) : d \in DictsOver(RequestKeys)}

SubAccounts == {None, PyStr("sub-1")}

OrderResponses ==
    {None,
     PyDict(EmptyDict),
     PyDict([code |-> PyInt(101400), msg |-> PyStr("rejected")]),
     PyDict([status |-> PyStr("REJECTED"), symbol |-> PyStr("BTC-USDT")]),
     PyDict([orderId |-> PyInt(123)]),
     PyDict([orderId |-> PyStr("123"), status |-> PyStr("FILLED")]),
     PyDict([orderId |-> PyStr("123"), status |-> None, symbol |-> PyStr("ETH-USDT")]),
     PyDict([orderId |-> PyStr("123"), clientOrderId |-> PyStr("cid-9"),
           status |-> PyStr("NEW"), symbol |-> PyStr("BTC-USDT"),
           side |-> PyStr("SELL"), positionSide |-> PyStr("SHORT")])}

ClientErrors == {PyStr("Connection refused"), PyStr("")}

OrderBehaviours ==
    {Returns(r) : r \in OrderResponses} \cup {Raises(e) : e \in ClientErrors}

OrderIds == {PyStr("123"), PyStr("456")}

Symbols == {PyStr("BTC-USDT"), PyStr("ETH-USDT")}

CancelResponses ==
    {None,
     PyDict(EmptyDict),
     PyDict([code |-> PyInt(80018), msg |-> PyStr("order not exist")]),
     PyDict([orderId |-> PyStr("123")]),
     PyDict([orderId |-> PyInt(123), status |-> PyStr("CANCELLED")])}

CancelBehaviours ==
    {Returns(r) : r \in CancelResponses} \cup {Raises(e) : e \in ClientErrors}

\* the requests made of a service object that takes several calls
ServiceRequests ==
    {PyDict([symbol |-> PyStr("BTC-USDT"), side |-> PyStr("BUY"),
             type |-> PyStr("MARKET"), quantity |-> PyFloat(0, 1)]),
     PyDict([symbol |-> PyStr("BTC-USDT"), side |-> PyStr("SELL"),
             type |-> PyStr("LIMIT"), quantity |-> PyInt(2), price |-> PyInt(5),
             reduceOnly |-> PyBool(TRUE)]),
     PyDict([symbol |-> PyStr("BTC-USDT"), side |-> PyStr("SELL"),
             type |-> PyStr("MARKET"), quantity |-> PyInt(2),
             reduceOnly |-> None]),
     PyDict([symbol |-> PyStr("BTC-USDT"), type |-> PyStr("MARKET"),
             quantity |-> PyInt(2), reduceOnly |-> PyBool(TRUE)]),
     PyDict([side |-> PyStr("BUY"), price |-> PyInt(5)]),
     PyDict(EmptyDict)}

\* the most calls made of one service object
MaxCalls == 2

---------------------------------------------------------------------------
(* A service object taking calls one after the other *)

Init ==
    /\ pc = "idle"
    /\ call = NoCall
    /\ trace = <<>>
    /\ result = NotReturned
    /\ prev = NoCall
    /\ ncalls = 0
    /\ argv = <<>>
    /\ stdout = <<>>
    /\ uncaught = NoException
    /\ exitcode = NotExited

Completed == [op |-> call.op, call |-> call, trace |-> trace, result |-> result]

PlaceOrder ==
    /\ pc \in {"idle", "returned"}
    /\ ncalls < MaxCalls
    /\ \E order_data \in ServiceRequests, sub_account_id \in SubAccounts,
          behaviour \in OrderBehaviours :
          LET out == place_order(order_data, sub_account_id, behaviour)
          IN  /\ call' = [op |-> "place_order", order_data |-> order_data,
                          sub_account_id |-> sub_account_id]
              /\ result' = out.result
              /\ trace' = out.trace
    /\ prev' = Completed
    /\ pc' = "returned"
    /\ ncalls' = ncalls + 1
    /\ UNCHANGED <<argv, stdout, uncaught, exitcode>>

CancelOrder ==
    /\ pc \in {"idle", "returned"}
    /\ ncalls < MaxCalls
    /\ \E order_id \in OrderIds, symbol \in Symbols, sub_account_id \in SubAccounts,
          behaviour \in CancelBehaviours :
          LET out == cancel_order(order_id, symbol, sub_account_id, behaviour)
          IN  /\ call' = [op |-> "cancel_order", order_id |-> order_id,
                          symbol |-> symbol, sub_account_id |-> sub_account_id]
              /\ result' = out.result
              /\ trace' = out.trace
    /\ prev' = Completed
    /\ pc' = "returned"
    /\ ncalls' = ncalls + 1
    /\ UNCHANGED <<argv, stdout, uncaught, exitcode>>

Next == PlaceOrder \/ CancelOrder

Spec == Init /\ [][Next]_vars

---------------------------------------------------------------------------
(* One call, of place_order or of cancel_order, on arguments drawn at the start *)

PlaceCalls ==
    {[op |-> "place_order", order_data |-> o, sub_account_id |-> s] :
        o \in OrderRequests, s \in SubAccounts}

CancelCalls ==
    {[op |-> "cancel_order", order_id |-> i, symbol |-> y, sub_account_id |-> s] :
        i \in OrderIds, y \in Symbols, s \in SubAccounts}

InitCall ==
    /\ pc = "called"
    /\ call \in PlaceCalls \cup CancelCalls
    /\ trace = <<>>
    /\ result = NotReturned
    /\ prev = NoCall
    /\ ncalls = 0
    /\ argv = <<>>
    /\ stdout = <<>>
    /\ uncaught = NoException
    /\ exitcode = NotExited

PlaceOrderReturns ==
    /\ pc = "called"
    /\ call.op = "place_order"
    /\ \E behaviour \in OrderBehaviours :
          LET out == place_order(call.order_data, call.sub_account_id, behaviour)
          IN  /\ result' = out.result
              /\ trace' = out.trace
    /\ pc' = "returned"
    /\ ncalls' = ncalls + 1
    /\ UNCHANGED <<call, prev, argv, stdout, uncaught, exitcode>>

CancelOrderReturns ==
    /\ pc = "called"
    /\ call.op = "cancel_order"
    /\ \E behaviour \in CancelBehaviours :
          LET out == cancel_order(call.order_id, call.symbol, call.sub_account_id,
                                  behaviour)
          IN  /\ result' = out.result
              /\ trace' = out.trace
    /\ pc' = "returned"
    /\ ncalls' = ncalls + 1
    /\ UNCHANGED <<call, prev, argv, stdout, uncaught, exitcode>>

NextCall == PlaceOrderReturns \/ CancelOrderReturns

SpecCall == InitCall /\ [][NextCall]_vars

---------------------------------------------------------------------------
(* main: one process run on a command line *)

\* json.loads(text): the value of a JSON document, or the JSONDecodeError
json_loads(text) ==
    CASE text = "null" -> Returns(None)
      [] text = "5" -> Returns(PyInt(5))
      [] text = "[1]" -> Returns(PyList(1))
      [] text = "\"BTC-USDT\"" -> Returns(PyStr("BTC-USDT"))
      [] text = "{}" -> Returns(PyDict(EmptyDict))
      [] text = "{\"symbol\": \"BTC-USDT\", \"side\": \"BUY\"}"
            -> Returns(PyDict([symbol |-> PyStr("BTC-USDT"), side |-> PyStr("BUY")]))
      [] text = "{\"symbol\": \"BTC-USDT\", \"side\": \"BUY\", \"type\": \"MARKET\", \"quantity\": 0.01}"
            -> Returns(PyDict([symbol |-> PyStr("BTC-USDT"), side |-> PyStr("BUY"),
                               type |-> PyStr("MARKET"), quantity |-> PyFloat(0, 1)]))
      [] text = "{\"symbol\": \"BTC-USDT\", \"side\": \"SELL\", \"type\": \"LIMIT\", \"quantity\": 2, \"price\": 5, \"reduceOnly\": true}"
            -> Returns(PyDict([symbol |-> PyStr("BTC-USDT"), side |-> PyStr("SELL"),
                               type |-> PyStr("LIMIT"), quantity |-> PyInt(2),
                               price |-> PyInt(5), reduceOnly |-> PyBool(TRUE)]))
      [] text = "{\"symbol\": \"ETH-USDT\", \"side\": \"BUY\", \"type\": \"MARKET\", \"quantity\": \"3\", \"clientOrderId\": null}"
            -> Returns(PyDict([symbol |-> PyStr("ETH-USDT"), side |-> PyStr("BUY"),
                               type |-> PyStr("MARKET"), quantity |-> PyStr("3"),
                               clientOrderId |-> None]))
      [] text = "{\"symbol\": \"BTC-USDT\", \"side\": \"BUY\", \"type\": \"LIMIT\", \"quantity\": 1, \"price\": 0, \"positionSide\": \"LONG\"}"
            -> Returns(PyDict([symbol |-> PyStr("BTC-USDT"), side |-> PyStr("BUY"),
                               type |-> PyStr("LIMIT"), quantity |-> PyInt(1),
                               price |-> PyInt(0), positionSide |-> PyStr("LONG")]))
      [] text = ""
            -> Raises(PyStr("Expecting value: line 1 column 1 (char 0)"))
      [] text = "{symbol: BTC-USDT}"
            -> Raises(PyStr("Expecting property name enclosed in double quotes: line 1 column 2 (char 1)"))
      [] OTHER
            -> Raises(PyStr("Expecting value: line 1 column 1 (char 0)"))

\* the order in which json.dumps meets the keys of the dicts of this program
KeyOrder ==
    <<"success", "orderId", "clientOrderId", "status", "symbol", "side",
      "positionSide", "error", "details", "code", "msg">>

\* json.dumps(x), with its default separators
RECURSIVE json_dumps(_)
RECURSIVE json_items(_, _, _)
json_items(x, i, sep) ==
    IF i > Len(KeyOrder) THEN ""
    ELSE IF KeyOrder[i] \in DOMAIN x.d
        THEN sep \o "\"" \o KeyOrder[i] \o "\": " \o json_dumps(x.d[KeyOrder[i]])
                 \o json_items(x, i + 1, ", ")
    ELSE json_items(x, i + 1, sep)

json_dumps(x) ==
    CASE x.py = "NoneType" -> "null"
      [] x.py = "int" -> ToString(x.n)
      [] x.py = "float" -> float_repr(x.units, x.hundredths)
      [] x.py = "str" -> "\"" \o x.s \o "\""
      [] x.py = "bool" -> IF x.b THEN "true" ELSE "false"
      [] x.py = "dict" -> "{" \o json_items(x, 1, "") \o "}"

Program == "python_order_service.py"

JsonTexts ==
    {"null", "5", "[1]", "\"BTC-USDT\"", "{}",
     "{\"symbol\": \"BTC-USDT\", \"side\": \"BUY\"}",
     "{\"symbol\": \"BTC-USDT\", \"side\": \"BUY\", \"type\": \"MARKET\", \"quantity\": 0.01}",
     "{\"symbol\": \"BTC-USDT\", \"side\": \"SELL\", \"type\": \"LIMIT\", \"quantity\": 2, \"price\": 5, \"reduceOnly\": true}",
     "{\"symbol\": \"ETH-USDT\", \"side\": \"BUY\", \"type\": \"MARKET\", \"quantity\": \"3\", \"clientOrderId\": null}",
     "{\"symbol\": \"BTC-USDT\", \"side\": \"BUY\", \"type\": \"LIMIT\", \"quantity\": 1, \"price\": 0, \"positionSide\": \"LONG\"}",
     "", "{symbol: BTC-USDT}", "BTC-USDT"}

CommandLines ==
    {<<Program>>, <<Program, "place_order">>, <<Program, "cancel_order">>,
     <<Program, "status">>, <<Program, "status", "123">>}
    \cup {<<Program, "place_order", text>> : text \in JsonTexts}
    \cup {<<Program, "cancel_order", id.s>> : id \in OrderIds}
    \cup {<<Program, "cancel_order", id.s, symbol.s>> :
             id \in OrderIds, symbol \in Symbols}

InitMain ==
    /\ pc = "start"
    /\ argv \in CommandLines
    /\ call = NoCall
    /\ trace = <<>>
    /\ result = NotReturned
    /\ prev = NoCall
    /\ ncalls = 0
    /\ stdout = <<>>
    /\ uncaught = NoException
    /\ exitcode = NotExited

\* print(usage); sys.exit(1)
Usage(line) ==
    /\ stdout' = <<line>>
    /\ exitcode' = "1"
    /\ pc' = "exit"
    /\ UNCHANGED <<call, trace, result, prev, ncalls, argv, uncaught>>

MainNoCommand ==
    /\ pc = "start"
    /\ Len(argv) < 2
    /\ Usage("Usage: python python_order_service.py <command> <args>")

MainPlaceOrderUsage ==
    /\ pc = "start"
    /\ Len(argv) >= 2
    /\ argv[2] = "place_order"
    /\ Len(argv) < 3
    /\ Usage("Usage: python python_order_service.py place_order <order_json>")

\* json.loads raises: nothing in main catches it
MainPlaceOrderLoadFails ==
    /\ pc = "start"
    /\ Len(argv) >= 3
    /\ argv[2] = "place_order"
    /\ json_loads(argv[3]).raises
    /\ uncaught' = Raised(json_loads(argv[3]).e)
    /\ exitcode' = "1"
    /\ pc' = "exit"
    /\ UNCHANGED <<call, trace, result, prev, ncalls, argv, stdout>>

MainPlaceOrder ==
    /\ pc = "start"
    /\ Len(argv) >= 3
    /\ argv[2] = "place_order"
    /\ ~json_loads(argv[3]).raises
    /\ \E behaviour \in OrderBehaviours :
          LET order_data == json_loads(argv[3]).value
              out == place_order(order_data, None, behaviour)
          IN  /\ call' = [op |-> "place_order", order_data |-> order_data,
                          sub_account_id |-> None]
              /\ result' = out.result
              /\ trace' = out.trace
              /\ stdout' = <<json_dumps(out.result)>>
    /\ ncalls' = ncalls + 1
    /\ exitcode' = "0"
    /\ pc' = "exit"
    /\ UNCHANGED <<prev, argv, uncaught>>

MainCancelOrderUsage ==
    /\ pc = "start"
    /\ Len(argv) >= 2
    /\ argv[2] = "cancel_order"
    /\ Len(argv) < 4
    /\ Usage("Usage: python python_order_service.py cancel_order <order_id> <symbol>")

MainCancelOrder ==
    /\ pc = "start"
    /\ Len(argv) >= 4
    /\ argv[2] = "cancel_order"
    /\ \E behaviour \in CancelBehaviours :
          LET out == cancel_order(PyStr(argv[3]), PyStr(argv[4]), None, behaviour)
          IN  /\ call' = [op |-> "cancel_order", order_id |-> PyStr(argv[3]),
                          symbol |-> PyStr(argv[4]), sub_account_id |-> None]
              /\ result' = out.result
              /\ trace' = out.trace
              /\ stdout' = <<json_dumps(out.result)>>
    /\ ncalls' = ncalls + 1
    /\ exitcode' = "0"
    /\ pc' = "exit"
    /\ UNCHANGED <<prev, argv, uncaught>>

MainUnknownCommand ==
    /\ pc = "start"
    /\ Len(argv) >= 2
    /\ argv[2] \notin {"place_order", "cancel_order"}
    /\ Usage("Unknown command: " \o argv[2])

NextMain ==
    \/ MainNoCommand
    \/ MainPlaceOrderUsage
    \/ MainPlaceOrderLoadFails
    \/ MainPlaceOrder
    \/ MainCancelOrderUsage
    \/ MainCancelOrder
    \/ MainUnknownCommand

SpecMain == InitMain /\ [][NextMain]_vars

---------------------------------------------------------------------------
(* Properties *)

Required == {"symbol", "side", "type", "quantity"}

True == PyBool(TRUE)
False == PyBool(FALSE)

\* the last invocation has returned (or let an exception through)
PlaceDone == call.op = "place_order" /\ result # NotReturned
CancelDone == call.op = "cancel_order" /\ result # NotReturned

\* the request of the last place_order is a dict with the four required keys
ValidRequest ==
    /\ call.order_data.py = "dict"
    /\ Required \subseteq DOMAIN call.order_data.d

\* the client's answer carries an order identifier
WithIdentifier(answer) ==
    /\ ~answer.raises
    /\ answer.value.py = "dict"
    /\ "orderId" \in DOMAIN answer.value.d

\* the client's answer is a response without an order identifier
WithoutIdentifier(answer) ==
    /\ ~answer.raises
    /\ \/ answer.value = None
       \/ answer.value.py = "dict" /\ "orderId" \notin DOMAIN answer.value.d

Field(response, key, otherwise) ==
    IF key \in DOMAIN response.d THEN response.d[key] ELSE otherwise

Calls(ev) == {i \in DOMAIN trace : trace[i].ev = ev}

\* C1: a place_order on a request holding symbol, side, type and quantity calls
\* the client, and when the client's response holds an order identifier the
\* result is success=true with orderId, clientOrderId, symbol, side and
\* positionSide those of the response (null where it has none) and status that
\* of the response, or "NEW" where it has none.
C1_PlaceOrderSuccess ==
    (PlaceDone /\ ValidRequest) =>
        /\ Len(trace) >= 1
        /\ trace[Len(trace)].ev = "order"
        /\ LET answer == trace[Len(trace)].outcome IN
           WithIdentifier(answer) =>
               result = PyDict([success |-> True,
                                orderId |-> answer.value.d["orderId"],
                                clientOrderId |-> Field(answer.value, "clientOrderId", None),
                                status |-> Field(answer.value, "status", PyStr("NEW")),
                                symbol |-> Field(answer.value, "symbol", None),
                                side |-> Field(answer.value, "side", None),
                                positionSide |-> Field(answer.value, "positionSide", None)])

\* a response with an identifier and neither status nor symbol, to a request
\* that names a symbol and a client order id
C1_Witness ==
    /\ PlaceDone
    /\ ValidRequest
    /\ "clientOrderId" \in DOMAIN call.order_data.d
    /\ call.order_data.d["clientOrderId"] = PyStr("cid-1")
    /\ WithIdentifier(trace[Len(trace)].outcome)
    /\ DOMAIN trace[Len(trace)].outcome.value.d = {"orderId"}
    /\ result.py = "dict"
    /\ result.d["success"] = True
    /\ result.d["status"] = PyStr("NEW")
    /\ result.d["symbol"] = None
    /\ result.d["clientOrderId"] = None

\* C2: the parameters of the client's order call hold reduceOnly exactly when
\* the request holds reduceOnly with a value other than null and the position
\* mode resolved before the call is not hedge.
C2_ReduceOnlyForwarding ==
    (call.op = "place_order" /\ call.order_data.py = "dict") =>
        \A i \in Calls("order") :
            ("reduceOnly" \in DOMAIN trace[i].arg.d)
            <=> /\ "reduceOnly" \in DOMAIN call.order_data.d
                /\ call.order_data.d["reduceOnly"] # None
                /\ \E j \in 1..(i - 1) :
                      /\ trace[j].ev = "_get_position_mode"
                      /\ trace[j].outcome.value # PyStr("hedge")

\* reduceOnly false, which is not null, is forwarded as "false"
C2_Witness ==
    /\ PlaceDone
    /\ "reduceOnly" \in DOMAIN call.order_data.d
    /\ call.order_data.d["reduceOnly"] = False
    /\ \E i \in Calls("order") :
          /\ "reduceOnly" \in DOMAIN trace[i].arg.d
          /\ trace[i].arg.d["reduceOnly"] = PyStr("false")

\* C4: a place_order on a request lacking one of symbol, side, type, quantity
\* returns success=false with an error that is a non-empty string, and lets no
\* exception through, whatever else the request holds.
C4_MissingRequiredFails ==
    (PlaceDone /\ call.order_data.py = "dict"
        /\ ~(Required \subseteq DOMAIN call.order_data.d)) =>
        /\ result.py = "dict"
        /\ {"success", "error"} \subseteq DOMAIN result.d
        /\ result.d["success"] = False
        /\ result.d["error"].py = "str"
        /\ result.d["error"].s # ""

\* only quantity is missing, of a request that holds every other key
C4_Witness ==
    /\ PlaceDone
    /\ call.order_data.py = "dict"
    /\ DOMAIN call.order_data.d = RequestKeys \ {"quantity"}
    /\ result = PyDict([success |-> False, error |-> PyStr("'quantity'")])

\* C5: when the client's response to the order call holds no order identifier
\* (a null or empty response included) the result is success=false, error
\* "Order placement failed" and details the response itself.
C5_NoIdentifierFails ==
    call.op = "place_order" =>
        \A i \in Calls("order") :
            WithoutIdentifier(trace[i].outcome) =>
                result = PyDict([success |-> False,
                                 error |-> PyStr("Order placement failed"),
                                 details |-> trace[i].outcome.value])

\* the client answered null
C5_Witness ==
    /\ PlaceDone
    /\ Calls("order") # {}
    /\ trace[Len(trace)].outcome = Returns(None)
    /\ result.py = "dict"
    /\ "details" \in DOMAIN result.d
    /\ result.d["details"] = None

\* the keys the parameters of the order call may hold, reduceOnly apart
AssembledKeys ==
    Required \cup {"price", "stopPrice", "positionSide", "workingType", "newClientOrderId"}

\* what C10 says of the parameters of one order call, but for the keys allowed
Assembled(params, order_data) ==
    /\ Required \subseteq DOMAIN params
    /\ params["symbol"] = order_data["symbol"]
    /\ params["side"] = order_data["side"]
    /\ params["type"] = order_data["type"]
    /\ params["quantity"].py = "str"
    /\ params["quantity"] = str(order_data["quantity"])
    /\ \A key \in {"price", "stopPrice", "positionSide", "workingType"} :
          (key \in DOMAIN params)
          <=> (key \in DOMAIN order_data /\ truthy(order_data[key]))
    /\ ("newClientOrderId" \in DOMAIN params)
          <=> ("clientOrderId" \in DOMAIN order_data
                  /\ truthy(order_data["clientOrderId"]))
    /\ \A key \in {"price", "stopPrice"} \cap DOMAIN params :
          params[key].py = "str" /\ params[key] = str(order_data[key])
    /\ \A key \in {"positionSide", "workingType"} \cap DOMAIN params :
          params[key] = order_data[key]
    /\ "newClientOrderId" \in DOMAIN params
          => params["newClientOrderId"] = order_data["clientOrderId"]

\* C10 as stated: the parameters of the order call are assembled as above and
\* hold no key but symbol, side, type, quantity, price, stopPrice,
\* positionSide, workingType and newClientOrderId.
C10_Original ==
    (call.op = "place_order" /\ call.order_data.py = "dict") =>
        \A i \in Calls("order") :
            /\ Assembled(trace[i].arg.d, call.order_data.d)
            /\ DOMAIN trace[i].arg.d \subseteq AssembledKeys

\* C10, amended: the parameters of the order call are assembled as above and
\* hold no key but those nine and reduceOnly.
C10_ParameterAssembly ==
    (call.op = "place_order" /\ call.order_data.py = "dict") =>
        \A i \in Calls("order") :
            /\ Assembled(trace[i].arg.d, call.order_data.d)
            /\ DOMAIN trace[i].arg.d \subseteq AssembledKeys \cup {"reduceOnly"}

\* price 0 and stopPrice 0.0 are left out, quantity 0.01 goes as "0.01", and
\* leverage and reduceOnly are in the request
C10_Witness ==
    /\ PlaceDone
    /\ ValidRequest
    /\ {"price", "stopPrice", "leverage", "reduceOnly", "clientOrderId"}
          \subseteq DOMAIN call.order_data.d
    /\ call.order_data.d["price"] = PyInt(0)
    /\ call.order_data.d["stopPrice"] = PyFloat(0, 0)
    /\ call.order_data.d["quantity"] = PyFloat(0, 1)
    /\ call.order_data.d["reduceOnly"] = True
    /\ \E i \in Calls("order") :
          /\ trace[i].arg.d["quantity"] = PyStr("0.01")
          /\ "price" \notin DOMAIN trace[i].arg.d
          /\ "newClientOrderId" \in DOMAIN trace[i].arg.d
          /\ "reduceOnly" \in DOMAIN trace[i].arg.d

\* C6: cancel_order calls the client's cancel once, with the symbol and the
\* order identifier it was given, and returns success, orderId and status of a
\* response with an identifier; "Cancel failed" with the response as details
\* for one without; and the stringified exception, not let through, when the
\* client raises.
C6_CancelOrderMapping ==
    CancelDone =>
        /\ Len(trace) = 1
        /\ trace[1].ev = "cancel_order"
        /\ trace[1].arg = PyDict([symbol |-> call.symbol, orderId |-> call.order_id])
        /\ LET answer == trace[1].outcome IN
           /\ WithIdentifier(answer) =>
                result = PyDict([success |-> True,
                                 orderId |-> answer.value.d["orderId"],
                                 status |-> Field(answer.value, "status", None)])
           /\ WithoutIdentifier(answer) =>
                result = PyDict([success |-> False,
                                 error |-> PyStr("Cancel failed"),
                                 details |-> answer.value])
           /\ answer.raises =>
                result = PyDict([success |-> False, error |-> answer.e])

\* the identifier returned is the response's, not the one asked for
C6_Witness ==
    /\ CancelDone
    /\ call.order_id = PyStr("456")
    /\ call.symbol = PyStr("ETH-USDT")
    /\ result.py = "dict"
    /\ result.d["success"] = True
    /\ result.d["orderId"] = PyInt(123)

\* C7: what an invocation returns is one dict, either success=true with
\* orderId and no error, or success=false with error and no orderId.
C7_OneTerminalResult ==
    (PlaceDone \/ CancelDone) =>
        /\ result.py = "dict"
        /\ "success" \in DOMAIN result.d
        /\ result.d["success"] \in {True, False}
        /\ result.d["success"] = True
              => "orderId" \in DOMAIN result.d /\ "error" \notin DOMAIN result.d
        /\ result.d["success"] = False
              => "error" \in DOMAIN result.d /\ "orderId" \notin DOMAIN result.d

\* a place_order refused by the exchange with a document that names a symbol
C7_Witness ==
    /\ PlaceDone
    /\ ValidRequest
    /\ ~trace[Len(trace)].outcome.raises
    /\ trace[Len(trace)].outcome.value
          = PyDict([status |-> PyStr("REJECTED"), symbol |-> PyStr("BTC-USDT")])
    /\ result.py = "dict"
    /\ DOMAIN result.d = {"success", "error", "details"}

\* two calls of cancel_order, one right after the other, with the same
\* order identifier and symbol
SameCancelTwice ==
    /\ CancelDone
    /\ prev.op = "cancel_order"
    /\ prev.call.order_id = call.order_id
    /\ prev.call.symbol = call.symbol

SameEnvelope(first, second) ==
    \/ first.d["success"] = True /\ second.d["success"] = True
    \/ /\ first.d["success"] = False
       /\ second.d["success"] = False
       /\ DOMAIN first.d = DOMAIN second.d

AnswerKind(answer) ==
    IF answer.raises THEN "exception"
    ELSE IF WithIdentifier(answer) THEN "identifier"
    ELSE "no identifier"

\* C8 as stated: two successive cancel_order calls with the same identifier and
\* symbol both succeed or both fail with the same set of keys, whatever the
\* client answers to each.
C8_Original ==
    SameCancelTwice => SameEnvelope(prev.result, result)

\* C8, amended: they do whenever the client answers both in the same way (an
\* identifier both times, a response without one both times, or an exception
\* both times).
C8_SameAnswerSameEnvelope ==
    (SameCancelTwice
        /\ AnswerKind(prev.trace[1].outcome) = AnswerKind(trace[1].outcome))
    => SameEnvelope(prev.result, result)

\* the client answered null, then an error document
C8_Witness ==
    /\ SameCancelTwice
    /\ prev.trace[1].outcome = Returns(None)
    /\ ~trace[1].outcome.raises
    /\ trace[1].outcome.value.py = "dict"
    /\ "code" \in DOMAIN trace[1].outcome.value.d
    /\ DOMAIN result.d = {"success", "error", "details"}
    /\ DOMAIN prev.result.d = {"success", "error", "details"}

\* C9: place_order calls the client's order at most once and never its cancel,
\* not at all when a required key is missing, and after the position mode was
\* resolved when reduceOnly is there and not null; cancel_order calls the
\* client's cancel exactly once and never its order.
C9_NoRetry ==
    /\ PlaceDone =>
          /\ Cardinality(Calls("order")) <= 1
          /\ Calls("cancel_order") = {}
          /\ ~ValidRequest => trace = <<>>
          /\ \A i \in Calls("order") :
                ("reduceOnly" \in DOMAIN call.order_data.d
                    /\ call.order_data.d["reduceOnly"] # None)
                => \E j \in 1..(i - 1) : trace[j].ev = "_get_position_mode"
    /\ CancelDone =>
          /\ Cardinality(Calls("cancel_order")) = 1
          /\ Calls("order") = {}

\* the client raised on an order with reduceOnly: mode resolution, one call
C9_Witness ==
    /\ PlaceDone
    /\ ValidRequest
    /\ Len(trace) = 2
    /\ trace[1].ev = "_get_position_mode"
    /\ trace[2].ev = "order"
    /\ trace[2].outcome.raises
    /\ result.d["success"] = False

\* C3: a place_order or cancel_order command line with its arguments ends with
\* the envelope written out, {success: false, error, details?} upon a failure,
\* and with no exception leaving main.
C3_EveryFailureEnveloped ==
    (/\ pc = "exit"
     /\ Len(argv) >= 2
     /\ \/ argv[2] = "place_order" /\ Len(argv) >= 3
        \/ argv[2] = "cancel_order" /\ Len(argv) >= 4)
    => /\ uncaught = NoException
       /\ result.py = "dict"
       /\ "success" \in DOMAIN result.d
       /\ result.d["success"] = False => "error" \in DOMAIN result.d
       /\ stdout = <<json_dumps(result)>>

====
